---- MODULE Spec2Model ----
(***************************************************************************)
(* A model of mothergeo/codetools.py: the Enums.from_name resolver with    *)
(* its process-wide name cache, Dicts.try_get, and the two iterator        *)
(* helpers Iters.count and Iters.get_item_at.                              *)
(***************************************************************************)
EXTENDS Integers, Sequences, FiniteSets, TLC

VARIABLES
    members,        \* enum class -> its member names, in definition order
    names2members,  \* Enums._names2members: enum class -> index object
    pc,             \* thread -> position inside from_name
    frame,          \* thread -> locals of its from_name call and its outcome
    obj,            \* the mapping handed to Dicts.try_get (or None)
    s,              \* the finite sequence the caller's iterator runs over
    pos,            \* how many elements the caller's iterator has yielded
    last            \* the last call made and its outcome

vars == <<members, names2members, pc, frame, obj, s, pos, last>>

\* Python's None.
None == "None"

----------------------------------------------------------------------------
(* Strings: a name is a sequence of characters. Three characters carry the   *)
(* cases of str.lower()/str.upper(): "i", "I" and the dotless i, whose upper *)
(* case is "I" although the lower case of "I" is "i".                        *)

Alphabet == {"i", "I", "i_dotless"}

LowerChar(c) == IF c = "I" THEN "i" ELSE c
UpperChar(c) == IF c \in {"i", "i_dotless"} THEN "I" ELSE c

StrLower(n) == [k \in 1..Len(n) |-> LowerChar(n[k])]
StrUpper(n) == [k \in 1..Len(n) |-> UpperChar(n[k])]

\* Member names an enum class may declare, and the strings a caller may pass.
Names == {<<"i">>, <<"I">>, <<"i_dotless">>, <<"i", "I">>}
ArgNames == Names \cup {StrLower(n) : n \in Names} \cup {StrUpper(n) : n \in Names}

----------------------------------------------------------------------------
(* Classes and values *)

EnumClasses == {"E", "F"}
NonEnumClasses == {"str", "int"}
Classes == EnumClasses \cup NonEnumClasses

MaxMembers == 2

\* The bodies an Enum class may have: up to n distinct member names, in order.
RECURSIVE EnumDefs(_)
EnumDefs(n) ==
    IF n = 0 THEN {<<>>}
    ELSE LET shorter == EnumDefs(n - 1)
         IN  shorter \cup
             UNION {{Append(d, x) : x \in Names \ {d[k] : k \in 1..Len(d)}} :
                       d \in {r \in shorter : Len(r) = n - 1}}

\* A value is its class and its payload.
Str(n) == [cls |-> "str", name |-> n]
IntVal == [cls |-> "int", name |-> <<>>]
Member(c, n) == [cls |-> c, name |-> n]
NoValue == [cls |-> "NoneType", name |-> <<>>]

\* enum_cls.__members__.items(): (name, member) pairs in definition order.
MembersItems(defs, c) ==
    [k \in 1..Len(defs[c]) |-> [key |-> defs[c][k], value |-> Member(c, defs[c][k])]]

\* A variant without the pass-through of line 44.
IsInstanceNever(v, c) == FALSE

\* isinstance(name, enum_cls)
IsInstance(v, c) == v.cls = c

\* issubclass(enum_cls, Enum)
IsEnumSubclass(c) == c \in EnumClasses

----------------------------------------------------------------------------
(* CaseInsensitiveDict and the name cache *)

Put(f, k, v) == [x \in DOMAIN f \cup {k} |-> IF x = k THEN v ELSE f[x]]

\* A variant that files keys as they are written, as a plain dict does.
FoldKeyExact(key) == key

\* The key a CaseInsensitiveDict files a string key under.
FoldKey(key) == StrLower(key)

\* CaseInsensitiveDict(dict(items)): every item is set in turn under its folded
\* key, a later item replacing an earlier one filed under the same key.
RECURSIVE DictUpdate(_, _)
DictUpdate(store, items) ==
    IF items = <<>> THEN store
    ELSE DictUpdate(Put(store, FoldKey(Head(items).key), Head(items).value), Tail(items))

\* The local symbols2members: None, or an index object (who built it, its store).
NoIndex == [kind |-> "None", id |-> "nobody", store |-> <<>>]

\* symbols2members = CaseInsensitiveDict(dict(enum_cls.__members__.items()))
BuildIndex(defs, c, who) ==
    [kind |-> "index", id |-> who, store |-> DictUpdate(<<>>, MembersItems(defs, c))]

\* try: symbols2members = Enums._names2members[enum_cls]  except KeyError: pass
CacheRead(cache, c) == IF c \in DOMAIN cache THEN cache[c] ELSE NoIndex

\* A variant that rebinds the cache: Enums._names2members = {enum_cls: symbols2members}.
CacheWriteOnly(cache, c, idx) == [x \in {c} |-> idx]

\* A variant that stores an index not yet filled.
CacheWriteEmpty(cache, c, idx) == Put(cache, c, [idx EXCEPT !.store = <<>>])

\* Enums._names2members[enum_cls] = symbols2members
CacheWrite(cache, c, idx) == Put(cache, c, idx)

\* A variant that answers like symbols2members.get(name): None for a missing key.
LookupOutcomesGet(idx, v) ==
    IF v.cls = "str" /\ FoldKey(v.name) \in DOMAIN idx.store
    THEN {[ret |-> idx.store[FoldKey(v.name)], err |-> "none"]}
    ELSE {[ret |-> NoValue, err |-> "none"]}

\* symbols2members[name]: a string is looked up under its folded key; what a key
\* that is no string does is the library's affair, some exception comes out.
LookupOutcomes(idx, v) ==
    IF v.cls = "str"
    THEN IF FoldKey(v.name) \in DOMAIN idx.store
         THEN {[ret |-> idx.store[FoldKey(v.name)], err |-> "none"]}
         ELSE {[ret |-> NoValue, err |-> "KeyError"]}
    ELSE {[ret |-> NoValue, err |-> e] : e \in {"KeyError", "AttributeError", "TypeError"}}

\* Enums.from_name run from entry to exit by `who`: every outcome it may have,
\* each with the cache it leaves.
FromName(defs, cache, c, v, who) ==
    IF IsInstance(v, c)
    THEN {[ret |-> v, err |-> "none", cache |-> cache]}
    ELSE IF ~IsEnumSubclass(c)
    THEN {[ret |-> NoValue, err |-> "ValueError", cache |-> cache]}
    ELSE LET found == CacheRead(cache, c)
             symbols2members == IF found.kind = "None" THEN BuildIndex(defs, c, who)
                                ELSE found
             cache2 == IF found.kind = "None" THEN CacheWrite(cache, c, symbols2members)
                       ELSE cache
         IN  {[ret |-> o.ret, err |-> o.err, cache |-> cache2] :
                 o \in LookupOutcomes(symbols2members, v)}

----------------------------------------------------------------------------
(* Iters *)

MaxLen == 3
Elems == {"a", "b"}

RECURSIVE SeqsUpTo(_, _)
SeqsUpTo(S, n) ==
    IF n = 0 THEN {<<>>}
    ELSE LET shorter == SeqsUpTo(S, n - 1)
         IN  shorter \cup {Append(q, x) : q \in {r \in shorter : Len(r) = n - 1}, x \in S}

\* next(it) on the caller's iterator: the element at the cursor, cursor advanced.
IterNext(seq, p) == [item |-> seq[p + 1], pos |-> p + 1]

IterExhausted(seq, p) == p >= Len(seq)

\* t = tee(it, 1)[0], then t run to exhaustion: the tee object holds no elements
\* of its own, each of its steps pulls the next element out of `it`.
RECURSIVE TeeDrain(_, _, _)
TeeDrain(seq, p, got) ==
    IF IterExhausted(seq, p) THEN [items |-> got, pos |-> p]
    ELSE LET n == IterNext(seq, p)
         IN  TeeDrain(seq, n.pos, Append(got, n.item))

\* sum(1 for _ in t)
RECURSIVE SumOnes(_)
SumOnes(items) == IF items = <<>> THEN 0 ELSE 1 + SumOnes(Tail(items))

\* A variant that starts counting after the first element.
CountMissesOne(seq, p) ==
    LET d == TeeDrain(seq, p, <<>>)
    IN  [ret |-> IF d.items = <<>> THEN 0 ELSE SumOnes(Tail(d.items)),
         err |-> "none", pos |-> d.pos]

\* Iters.count: the value returned and where it leaves the caller's iterator.
IterCount(seq, p) ==
    LET d == TeeDrain(seq, p, <<>>)
    IN  [ret |-> SumOnes(d.items), err |-> "none", pos |-> d.pos]

\* A variant whose index wraps around once more: len(lst) leads to the first item.
ListIndexWraps(lst, index) ==
    IF 0 <= index /\ index < Len(lst)
    THEN [ret |-> lst[index + 1], err |-> "none"]
    ELSE IF (-Len(lst) <= index /\ index < 0) \/ (index = Len(lst) /\ lst # <<>>)
    THEN [ret |-> lst[((Len(lst) + index) % Len(lst)) + 1], err |-> "none"]
    ELSE [ret |-> None, err |-> "IndexError"]

\* list(t)[index] with Python's list indexing: a negative index counts from the end.
ListIndex(lst, index) ==
    IF 0 <= index /\ index < Len(lst)
    THEN [ret |-> lst[index + 1], err |-> "none"]
    ELSE IF -Len(lst) <= index /\ index < 0
    THEN [ret |-> lst[Len(lst) + index + 1], err |-> "none"]
    ELSE [ret |-> None, err |-> "IndexError"]

\* Iters.get_item_at
IterGetItemAt(seq, p, index) ==
    LET d == TeeDrain(seq, p, <<>>)
        r == ListIndex(d.items, index)
    IN  [ret |-> r.ret, err |-> r.err, pos |-> d.pos]

----------------------------------------------------------------------------
(* Dicts *)

MaxDictSize == 2
Keys == {"k1", "k2", "k3"}
Values == {None, "x", "y"}

\* A value handed in as `obj`: None, or a dict with its items.
NoneObj == [kind |-> "None", items |-> <<>>]
DictObj(f) == [kind |-> "dict", items |-> f]

Mappings ==
    {NoneObj} \cup
    {DictObj(f) : f \in UNION {[K -> Values] :
                      K \in {D \in SUBSET Keys : Cardinality(D) <= MaxDictSize}}}

\* TryGetResult(result, value)
TryGetResult(result, value) == [result |-> result, value |-> value]

\* A variant that tests the value, as `obj.get(key) is None` does, not the key.
TryGetByValue(d, key, default) ==
    IF d.kind = "None" \/ key \notin DOMAIN d.items \/ d.items[key] = None
    THEN TryGetResult(FALSE, default)
    ELSE TryGetResult(TRUE, d.items[key])

\* Dicts.try_get: the tuple returned (no statement of it raises or assigns to obj).
TryGet(d, key, default) ==
    IF d.kind = "None" \/ key \notin DOMAIN d.items
    THEN TryGetResult(FALSE, default)
    ELSE TryGetResult(TRUE, d.items[key])

----------------------------------------------------------------------------
(* Calls made one after another by a single caller *)

Threads == {"t1", "t2"}

NoCall == [op |-> "none"]
NoFrame == [cls |-> "str", arg |-> NoValue, symbols2members |-> NoIndex,
            ret |-> NoValue, err |-> "none"]

\* The variables a specification does not exercise stay as the module leaves them.
EnumsAtRest ==
    /\ members = [c \in EnumClasses |-> <<>>]
    /\ names2members = <<>>
    /\ pc = [t \in Threads |-> "idle"]
    /\ frame = [t \in Threads |-> NoFrame]

DictsAtRest == obj = NoneObj

ItersAtRest == s = <<>> /\ pos = 0

\* The values a caller may pass as the second argument of from_name.
ArgValues(defs) ==
    {Str(n) : n \in ArgNames} \cup {IntVal} \cup
    UNION {{Member(c, defs[c][k]) : k \in 1..Len(defs[c])} : c \in EnumClasses}

InitEnum ==
    /\ members \in {[c \in EnumClasses |-> IF c = "E" THEN d ELSE f] :
                       d \in EnumDefs(MaxMembers), f \in EnumDefs(1)}
    /\ names2members = <<>>
    /\ pc = [t \in Threads |-> "idle"]
    /\ frame = [t \in Threads |-> NoFrame]
    /\ DictsAtRest /\ ItersAtRest
    /\ last = NoCall

\* One whole call of Enums.from_name(c, v).
FromNameCall ==
    \E c \in Classes, v \in ArgValues(members) :
        \E o \in FromName(members, names2members, c, v, "main") :
            /\ names2members' = o.cache
            /\ last' = [op |-> "from_name", cls |-> c, arg |-> v,
                        cached |-> c \in DOMAIN names2members,
                        ret |-> o.ret, err |-> o.err]
            /\ UNCHANGED <<members, pc, frame, obj, s, pos>>

NextEnum == FromNameCall

SpecEnum == InitEnum /\ [][NextEnum]_vars

InitDict ==
    /\ EnumsAtRest /\ ItersAtRest
    /\ obj \in Mappings
    /\ last = NoCall

\* One whole call of Dicts.try_get(obj, key, default).
TryGetCall ==
    \E key \in Keys, default \in Values :
        /\ last' = [op |-> "try_get", obj |-> obj, key |-> key, default |-> default,
                    ret |-> TryGet(obj, key, default), err |-> "none"]
        /\ UNCHANGED <<members, names2members, pc, frame, obj, s, pos>>

NextDict == TryGetCall

SpecDict == InitDict /\ [][NextDict]_vars

Indexes == (0 - (MaxLen + 1))..(MaxLen + 1)

InitIter ==
    /\ EnumsAtRest /\ DictsAtRest
    /\ s \in SeqsUpTo(Elems, MaxLen)
    /\ pos = 0
    /\ last = NoCall

\* The caller takes an iterator over s afresh: it = iter(s).
NewIter ==
    /\ pos' = 0
    /\ last' = [op |-> "iter", before |-> pos]
    /\ UNCHANGED <<members, names2members, pc, frame, obj, s>>

\* The caller advances its own iterator: next(it).
NextItem ==
    /\ ~IterExhausted(s, pos)
    /\ pos' = IterNext(s, pos).pos
    /\ last' = [op |-> "next", before |-> pos]
    /\ UNCHANGED <<members, names2members, pc, frame, obj, s>>

\* One whole call of Iters.count(it).
CountCall ==
    LET r == IterCount(s, pos)
    IN  /\ pos' = r.pos
        /\ last' = [op |-> "count", before |-> pos, index |-> 0,
                    ret |-> r.ret, err |-> r.err]
        /\ UNCHANGED <<members, names2members, pc, frame, obj, s>>

\* One whole call of Iters.get_item_at(it, index).
GetItemAtCall ==
    \E index \in Indexes :
        LET r == IterGetItemAt(s, pos, index)
        IN  /\ pos' = r.pos
            /\ last' = [op |-> "get_item_at", before |-> pos, index |-> index,
                        ret |-> r.ret, err |-> r.err]
            /\ UNCHANGED <<members, names2members, pc, frame, obj, s>>

NextIter == NewIter \/ NextItem \/ CountCall \/ GetItemAtCall

SpecIter == InitIter /\ [][NextIter]_vars

----------------------------------------------------------------------------
(* Threads calling Enums.from_name at once: a thread may be switched out     *)
(* between any two statements that touch the shared cache.                   *)

\* The enum classes of the racing process.
RaceDefs ==
    {[c \in EnumClasses |-> IF c = "E" THEN d ELSE << <<"i", "I">> >>] :
        d \in {<< <<"i">>, <<"I">> >>, << <<"I">>, <<"i_dotless">> >>}}

RaceArgs(defs, c) ==
    {Str(n) : n \in Names} \cup {Member(c, defs[c][k]) : k \in 1..Len(defs[c])}

InitRace ==
    /\ members \in RaceDefs
    /\ names2members = <<>>
    /\ pc = [t \in Threads |-> "idle"]
    /\ frame = [t \in Threads |-> NoFrame]
    /\ DictsAtRest /\ ItersAtRest
    /\ last = NoCall

Returned(t, ret, err) ==
    /\ frame' = [frame EXCEPT ![t].ret = ret, ![t].err = err]
    /\ pc' = [pc EXCEPT ![t] = "done"]

\* A thread enters from_name(c, v).
Enter(t) ==
    /\ pc[t] \in {"idle", "done"}
    /\ \E c \in EnumClasses : \E v \in RaceArgs(members, c) :
           frame' = [frame EXCEPT ![t] = [NoFrame EXCEPT !.cls = c, !.arg = v]]
    /\ pc' = [pc EXCEPT ![t] = "l44"]
    /\ UNCHANGED <<members, names2members, obj, s, pos, last>>

\* Lines 44-51: the pass-through and the check of the class.
CheckArgs(t) ==
    /\ pc[t] = "l44"
    /\ IF IsInstance(frame[t].arg, frame[t].cls)
       THEN Returned(t, frame[t].arg, "none")
       ELSE IF ~IsEnumSubclass(frame[t].cls)
       THEN Returned(t, NoValue, "ValueError")
       ELSE pc' = [pc EXCEPT ![t] = "l54"] /\ UNCHANGED frame
    /\ UNCHANGED <<members, names2members, obj, s, pos, last>>

\* Lines 53-58: the cache is read, and the local tested against None.
ReadCache(t) ==
    /\ pc[t] = "l54"
    /\ LET found == CacheRead(names2members, frame[t].cls)
       IN  /\ frame' = [frame EXCEPT ![t].symbols2members = found]
           /\ pc' = [pc EXCEPT ![t] = IF found.kind = "None" THEN "l60" ELSE "l64"]
    /\ UNCHANGED <<members, names2members, obj, s, pos, last>>

\* Line 60: the index is built into the local.
Build(t) ==
    /\ pc[t] = "l60"
    /\ frame' = [frame EXCEPT ![t].symbols2members = BuildIndex(members, frame[t].cls, t)]
    /\ pc' = [pc EXCEPT ![t] = "l62"]
    /\ UNCHANGED <<members, names2members, obj, s, pos, last>>

\* Line 62: the local is stored in the cache.
WriteCache(t) ==
    /\ pc[t] = "l62"
    /\ names2members' = CacheWrite(names2members, frame[t].cls, frame[t].symbols2members)
    /\ pc' = [pc EXCEPT ![t] = "l64"]
    /\ UNCHANGED <<members, frame, obj, s, pos, last>>

\* Line 64: the lookup in the local, and the return.
Lookup(t) ==
    /\ pc[t] = "l64"
    /\ \E o \in LookupOutcomes(frame[t].symbols2members, frame[t].arg) :
           Returned(t, o.ret, o.err)
    /\ UNCHANGED <<members, names2members, obj, s, pos, last>>

EnterStep == \E t \in Threads : Enter(t)
CheckArgsStep == \E t \in Threads : CheckArgs(t)
ReadCacheStep == \E t \in Threads : ReadCache(t)
BuildStep == \E t \in Threads : Build(t)
WriteCacheStep == \E t \in Threads : WriteCache(t)
LookupStep == \E t \in Threads : Lookup(t)

NextRace ==
    \/ EnterStep \/ CheckArgsStep \/ ReadCacheStep
    \/ BuildStep \/ WriteCacheStep \/ LookupStep

SpecRace == InitRace /\ [][NextRace]_vars

----------------------------------------------------------------------------
(* Properties *)

IsFromName(c) == last.op = "from_name" /\ last.cls = c

MemberNames(c) == {members[c][k] : k \in 1..Len(members[c])}

\* No two member names of c are equal once their case is ignored.
NoCaseClash(c) ==
    \A a, b \in 1..Len(members[c]) :
        StrLower(members[c][a]) = StrLower(members[c][b]) => a = b

\* The case-insensitive name -> member map of c: each lower-cased name leads to
\* the member declared last under it.
NameMap(c) ==
    [k \in {StrLower(n) : n \in MemberNames(c)} |->
        LET at == {j \in 1..Len(members[c]) : StrLower(members[c][j]) = k}
            j == CHOOSE x \in at : \A y \in at : y <= x
        IN  Member(c, members[c][j])]

\* C1: after Iters.count(it), and after Iters.get_item_at(it, i) for a valid i,
\* the caller's iterator stands where it stood before the call.
C1_IteratorNotConsumed ==
    (last.op \in {"count", "get_item_at"} /\ last.err = "none") => pos = last.before

\* C2, as stated: for every enum class and every member m named n, the strings
\* n, n.upper() and n.lower() all resolve to m, whatever the member names are.
C2_AnyNamesResolve ==
    \A c \in EnumClasses :
        (IsFromName(c) /\ last.arg.cls = "str") =>
            \A n \in MemberNames(c) :
                last.arg.name \in {n, StrUpper(n), StrLower(n)} =>
                    last.err = "none" /\ last.ret = Member(c, n)

\* C2, amended: when no two member names of the class are equal ignoring case,
\* n and n.lower() resolve to the member named n, and so does n.upper() when
\* upper-casing n keeps its lower-cased form; in every state of the cache.
C2_DistinctNamesResolve ==
    \A c \in EnumClasses :
        (IsFromName(c) /\ last.arg.cls = "str" /\ NoCaseClash(c)) =>
            \A n \in MemberNames(c) :
                (\/ last.arg.name \in {n, StrLower(n)}
                 \/ last.arg.name = StrUpper(n) /\ StrLower(StrUpper(n)) = StrLower(n))
                => (last.err = "none" /\ last.ret = Member(c, n))

C2_Witness ==
    \E c \in EnumClasses :
        /\ IsFromName(c) /\ last.cached /\ NoCaseClash(c) /\ Len(members[c]) = 2
        /\ \E n \in MemberNames(c) :
              /\ last.arg = Str(StrUpper(n)) /\ StrUpper(n) # n
              /\ last.ret = Member(c, n)

\* C3: from_name on a class that is no Enum class fails with ValueError,
\* whatever the second argument is.
C3_NonEnumRejected ==
    (last.op = "from_name" /\ last.cls \in NonEnumClasses) =>
        (last.err = "ValueError" /\ last.ret = NoValue)

\* C4: try_get never raises, leaves the mapping as it was, and returns
\* (True, d[k]) exactly when d is a mapping that holds k, (False, default) otherwise.
C4_TryGet ==
    last.op = "try_get" =>
        LET present == last.obj.kind = "dict" /\ last.key \in DOMAIN last.obj.items
        IN  /\ last.err = "none"
            /\ obj = last.obj
            /\ present => last.ret = [result |-> TRUE, value |-> last.obj.items[last.key]]
            /\ ~present => last.ret = [result |-> FALSE, value |-> last.default]

C4_Witness ==
    /\ last.op = "try_get"
    /\ last.obj.kind = "dict" /\ last.key \in DOMAIN last.obj.items
    /\ last.obj.items[last.key] = None /\ last.default # None
    /\ last.ret.result

\* C5, as stated: get_item_at fails with IndexError for every index outside
\* 0..len(s)-1.
C5_OutsideZeroBasedFails ==
    (last.op = "get_item_at" /\ (last.index < 0 \/ last.index >= Len(s))) =>
        (last.err = "IndexError" /\ last.ret = None)

\* C5, amended: get_item_at fails with IndexError for every index >= len(s) and
\* every index below minus the number of elements the iterator had left; a
\* negative index not below that returns the element that far from the end.
C5_OutOfRangeFails ==
    last.op = "get_item_at" =>
        LET left == Len(s) - last.before
        IN  /\ (last.index >= Len(s) \/ last.index < 0 - left) =>
                   (last.err = "IndexError" /\ last.ret = None)
            /\ (0 - left <= last.index /\ last.index < 0) =>
                   (last.err = "none" /\ last.ret = s[Len(s) + last.index + 1])

C5_Witness ==
    /\ last.op = "get_item_at" /\ last.before = 0
    /\ Len(s) >= 2 /\ last.index = Len(s)
    /\ last.err = "IndexError"

\* C6: from_name(E, m) returns the member m itself, whether or not an index
\* for E is cached; and whatever from_name(E, x) resolves to is a member of E,
\* so resolving it again returns it.
C6_PassThrough ==
    \A c \in EnumClasses :
        IsFromName(c) =>
            /\ last.arg.cls = c => (last.err = "none" /\ last.ret = last.arg)
            /\ last.err = "none" =>
                   (last.ret.cls = c /\ last.ret.name \in MemberNames(c))

C6_Witness ==
    \E c \in EnumClasses :
        /\ IsFromName(c) /\ last.arg.cls = c /\ last.ret = last.arg
        /\ c \notin DOMAIN names2members

\* C7: a string that matches no member name of E ignoring case makes
\* from_name fail with KeyError, on the first lookup and on cached ones.
C7_UnknownNameFails ==
    \A c \in EnumClasses :
        (/\ IsFromName(c) /\ last.arg.cls = "str"
         /\ \A n \in MemberNames(c) : StrLower(n) # StrLower(last.arg.name))
        => (last.err = "KeyError" /\ last.ret = NoValue)

C7_Witness ==
    \E c \in EnumClasses :
        /\ IsFromName(c) /\ last.cached /\ Len(members[c]) = 2
        /\ last.arg = Str(<<"i_dotless">>) /\ <<"I">> \in MemberNames(c)
        /\ last.err = "KeyError"

\* C8: count returns the number of elements the iterator had left, which is
\* len(s) for an iterator that was not advanced.
C8_CountRemaining ==
    last.op = "count" =>
        /\ last.err = "none"
        /\ last.ret = Len(s) - last.before
        /\ last.before = 0 => last.ret = Len(s)

C8_Witness == last.op = "count" /\ last.before = 0 /\ last.ret >= 2

\* C9, as stated: every step keeps every entry of the cache, the very index
\* object that was stored first.
C9_NeverOverwritten ==
    [][\A c \in DOMAIN names2members :
          c \in DOMAIN names2members' /\ names2members'[c] = names2members[c]]_vars

\* C9, amended: the cache holds one index per enum class at most; every step
\* keeps every entry and its content; an entry is replaced only by a call that
\* read the cache before the entry was stored, and by an index of equal content.
C9_ContentKept ==
    [][/\ DOMAIN names2members' \subseteq EnumClasses
       /\ \A c \in DOMAIN names2members :
             /\ c \in DOMAIN names2members'
             /\ names2members'[c].store = names2members[c].store
             /\ names2members'[c] # names2members[c] =>
                   \E t \in Threads :
                       /\ pc[t] = "l62" /\ pc'[t] = "l64" /\ frame[t].cls = c
                       /\ names2members'[c] = frame[t].symbols2members]_vars

C9_Witness ==
    /\ DOMAIN names2members = EnumClasses
    /\ \E c \in EnumClasses : \E t, u \in Threads :
          /\ t # u /\ names2members[c].id = t
          /\ frame[u].cls = c /\ frame[u].symbols2members.id = u
          /\ pc[u] \in {"l64", "done"}

\* C10: under every interleaving the index stored for a class is the
\* case-insensitive name -> member map of the class, and every call returns
\* what it returns when run alone from an empty cache.
C10_RaceBenign ==
    /\ \A c \in DOMAIN names2members :
          names2members[c].kind = "index" /\ names2members[c].store = NameMap(c)
    /\ \A t \in Threads :
          pc[t] = "done" =>
              \E o \in FromName(members, <<>>, frame[t].cls, frame[t].arg, t) :
                  frame[t].ret = o.ret /\ frame[t].err = o.err

C10_Witness ==
    \E c \in EnumClasses : \E t, u \in Threads :
        /\ t # u /\ pc[t] = "done" /\ pc[u] = "done"
        /\ frame[t].cls = c /\ frame[u].cls = c
        /\ frame[t].symbols2members.id = t /\ frame[u].symbols2members.id = u
        /\ frame[t].err = "none" /\ frame[u].err = "none"
        /\ frame[t].ret # frame[u].ret

====
